---- MODULE Spec2Model ----
(***************************************************************************)
(* Model of the crawl-cache-index pipeline of learndocs (src/main.py,      *)
(* src/vectordb.py): the `fetch` command's frontier walk, cache-or-network *)
(* resolution, page clean-up, chunk id construction, upsert and link       *)
(* extraction, and the project test of the `ask` command.                  *)
(*                                                                         *)
(* Spec is the walk under several max_links and max_depth; SpecCode is the *)
(* program with the two values main.py fixes; SpecLive is the walk with    *)
(* the loop's steps weakly fair.                                           *)
(*                                                                         *)
(* Strings are sequences of tokens (a URL "https://example.com/a" is       *)
(* <<"https://example.com", "/a">>), so that Python's substring test       *)
(* `x in s` is contiguous-subsequence containment.  An HTML document is a  *)
(* sequence of elements; the empty sequence is the empty string "".        *)
(***************************************************************************)
EXTENDS Integers, Sequences, FiniteSets, TLC

VARIABLES
    max_links,            \* main.py:92
    max_depth,            \* main.py:93
    pc,                   \* position of the fetch command
    run,                  \* number of fetch invocations so far
    project,              \* argument of fetch
    original,             \* argument of fetch (the seed URL)
    force_recache,        \* argument of fetch
    links,                \* main.py:89  work queue of [link, depth]
    visited,              \* main.py:90
    links_not_downloaded, \* main.py:91
    n,                    \* main.py:94  processed counter
    cache,                \* files cache/<project>/<sha256>.txt
    collection,           \* ids held by the project's vector collection
    netFetches,           \* history: requests.get calls of this run
    cacheReads,           \* history: get_cache calls of this run
    log,                  \* history: one record per processed item of this run
    runIds,               \* history: ids upserted by this run
    offered,              \* history: hrefs that reached urljoin in this run
    dupOffers,            \* history: resolved URLs rejected as already visited
    skipped,              \* history: hrefs passed over by the marker filter
    summary,              \* what the final print-out of this run reported
    prev,                 \* history: how the previous invocation ended
    dirs,                 \* projects whose directory cache/<project> exists
    fetched,              \* history: projects whose fetch passed validation
    asked                 \* what the latest ask command did

vars == <<max_links, max_depth, pc, run, project, original, force_recache,
          links, visited, links_not_downloaded, n, cache, collection,
          netFetches, cacheReads, log, runIds, offered, dupOffers, skipped,
          summary, prev, dirs, fetched, asked>>

----------------------------------------------------------------------------
(* Bounds of the model *)

MaxRuns == 2

MaxDepth == 2

MaxLinks == 2

(* The values the code fixes *)

CodeMaxLinks == 10

CodeMaxDepth == 1

----------------------------------------------------------------------------
(* Strings *)

\* Python's `sub in s` on strings
In(sub, s) ==
    \E i \in 0..(Len(s) - Len(sub)) : SubSeq(s, i + 1, i + Len(sub)) = sub

Site == "https://docs.example.com"

Example == "https://example.com"

Other == "https://other.com"

Origins == {Site, Example, Other}

NoneValue == "None"

Seeds == { <<Site>>, <<Site, "/b">> }

Projects == {"docs"}

\* base URL without its fragment
StripFragment(url) ==
    IF \E i \in 1..Len(url) : url[i] = "#"
    THEN SubSeq(url, 1, (CHOOSE i \in 1..Len(url) :
                            url[i] = "#" /\ \A j \in 1..(i-1) : url[j] # "#") - 1)
    ELSE url

\* urllib.parse.urljoin(base, href) for absolute URLs, absolute paths and
\* fragment-only references
urljoin(base, href) ==
    IF href = <<>> THEN base
    ELSE IF Head(href) \in Origins THEN href
    ELSE IF Head(href) = "#"
         THEN StripFragment(base) \o (IF Len(href) = 1 THEN <<>> ELSE href)
    ELSE <<Head(base)>> \o href

url_to_filename(url) == <<"sha256">> \o url

----------------------------------------------------------------------------
(* HTML documents *)

Title(t) == [tag |-> "title", href |-> <<>>, text |-> t]

Anchor(h) == [tag |-> "a", href |-> h, text |-> ""]

Nav(h) == [tag |-> "nav", href |-> h, text |-> ""]

Para(t) == [tag |-> "p", href |-> <<>>, text |-> t]

Script == [tag |-> "script", href |-> <<>>, text |-> ""]

EmptyBody == <<>>

IndexPage == << Title("Docs"), Anchor(<<Site, "/a">>), Anchor(<<"/b">>),
                Anchor(<<"#">>), Para("intro") >>

PageA == << Title("Docs"), Nav(<<"/d">>), Anchor(<<"/b">>), Anchor(<<"/b">>),
            Anchor(<<"/page", "#", "section">>), Anchor(<<"/cdn-cgi", "/trace">>),
            Anchor(<<Other, "/b">>), Anchor(<<>>), Anchor(<<"/c">>),
            Para("x"), Para("y") >>

NavOnly == << Nav(<<"/a">>), Script >>

LeafPage == << Title("Leaf"), Para("z") >>

\* a single page with two outbound links, one of them to another site
TwoLinkPage == << Anchor(<<Example, "/a">>), Anchor(<<Other, "/b">>) >>

\* the site that is crawled: the document served at each URL
Web(url) ==
    CASE url = <<Site>> -> IndexPage
      [] url = <<Site, "/a">> -> PageA
      [] url = <<Site, "/b">> -> NavOnly
      [] url = <<Example>> -> TwoLinkPage
      [] OTHER -> LeafPage

StripTags == {"nav", "footer", "header", "aside", "script", "style", "svg", "img"}

\* main.py:142-153: decompose every element of the listed kinds; str(soup)
Clean(html) == SelectSeq(html, LAMBDA e : e.tag \notin StripTags)

\* main.py:155: str(soup.title)
TitleOf(soup) ==
    IF \E i \in 1..Len(soup) : soup[i].tag = "title"
    THEN (SelectSeq(soup, LAMBDA e : e.tag = "title"))[1].text
    ELSE NoneValue

\* main.py:156: md(str(soup)), the text left for the chunker
Markdown(soup) == SelectSeq(soup, LAMBDA e : e.text # "")

\* main.py:158: the chunker, an ordered finite sequence of spans of the text
Split(text) == [i \in 1..Len(text) |-> text[i].text]

\* main.py:158: text_splitter.create_documents([llm_md]).  The text is handed
\* over as it is, empty or not; for the empty text the outcome is the
\* library's: no span, or the text itself as one (empty) span
create_documents(text) ==
    IF text = <<>> THEN {<<>>, <<"">>} ELSE {Split(text)}

\* main.py:173: soup.find_all("a")
AllLinks(soup) == SelectSeq(soup, LAMBDA e : e.tag = "a")

\* An optional string is <<>> for None and <<s>> for the string s;
\* Python truthiness of `str | None`: neither None nor ""
Truthy(opt) == opt # <<>> /\ opt[1] # <<>>

----------------------------------------------------------------------------
(* Cache files, main.py:36-60 *)

\* the project test, true only once something has been cached
project_exists_NeedsEntries(p) == p \in dirs /\ DOMAIN cache # {}

\* main.py:56-58: check_cache(project, None), os.path.exists of the
\* project's directory
project_exists(p) == p \in dirs

\* main.py:59-60: os.path.exists of the entry's file
check_cache(name) == name \in DOMAIN cache

\* main.py:46-52: the file's text, or None when open/read raises
get_cache(name, readOK) == IF readOK /\ name \in DOMAIN cache THEN <<cache[name]>> ELSE <<>>

\* main.py:36-43: the file holds txt afterwards, unless open/write raised
write_cache(files, name, txt, writeOK) ==
    IF writeOK THEN (name :> txt) @@ files ELSE files

\* write_cache without its try/except: the exception reaches fetch
write_cache_raises_Unguarded(writeOK) == ~writeOK

\* main.py:38-43: `except Exception` prints the error; nothing is raised
write_cache_raises(writeOK) == FALSE

----------------------------------------------------------------------------
(* Vector store, vectordb.py:11-16 *)

\* the id without the page counter
ChunkId_NoPageIndex(title, page_index, i) == <<"url_crawler", title, i>>

\* main.py:167,171: f"url_crawler_{title}_{n}_{i}"
ChunkId(title, page_index, i) == <<"url_crawler", title, page_index, i>>

\* main.py:162-171: one record per document of the chunker, in order,
\* i counting from 0
BuildRecords(docs, current_url, title, page_index) ==
    [k \in 1..Len(docs) |->
        [id |-> ChunkId(title, page_index, k - 1),
         document |-> docs[k],
         metadata |-> [source_url |-> current_url,
                       title |-> title,
                       id |-> ChunkId(title, page_index, k - 1)]]]

Range(seq) == {seq[i] : i \in 1..Len(seq)}

\* vectordb.py:12-16: c.upsert, insert or overwrite by id
add_data(c, records) ==
    {r \in c : \A k \in 1..Len(records) : records[k].id # r.id} \cup Range(records)

----------------------------------------------------------------------------
(* Frontier, main.py:98-103 and 175-189 *)

\* the counter left as it is
NextIndex_Stuck(k) == k

\* main.py:103: n = n + 1
NextIndex(k) == k + 1

\* a discovered link given depth 0, like the seed
ChildDepth_Reset(current_depth) == 0

\* a discovered link given the depth of the page it was found on
ChildDepth_Same(current_depth) == current_depth

\* main.py:186: "depth": current_depth + 1
ChildDepth(current_depth) == current_depth + 1

\* the loop guard with an off-by-one comparison
LoopGuard_Inclusive == n <= max_links /\ n < Len(links)

\* main.py:98
LoopGuard == n < max_links /\ n < Len(links)

\* the depth test with an off-by-one comparison
DepthOK_Inclusive(current_depth) == current_depth <= max_depth

\* main.py:102
DepthOK(current_depth) == current_depth < max_depth

\* the cache test without the force_recache flag
UseCache_IgnoreForce(filename) == check_cache(filename)

\* main.py:118: whether get_cache is consulted
UseCache(filename) == ~force_recache /\ check_cache(filename)

\* the href filter without the fragment test
SkipHref_NoFragment(href) == In(<<"/cdn-cgi">>, href)

\* main.py:178-181: hrefs that are passed over
SkipHref(href) == In(<<"/cdn-cgi">>, href) \/ In(<<"#">>, href)

\* the enqueue test without the containment check
ShouldEnqueue_NoContainment(complete_url, seen) == complete_url \notin seen

\* the enqueue test without the visited check
ShouldEnqueue_NoVisitedCheck(complete_url, seen) == In(original, complete_url)

\* main.py:183
ShouldEnqueue(complete_url, seen) ==
    In(original, complete_url) /\ complete_url \notin seen

\* the exception handler without the bookkeeping
RecordFailure_Dropped(failed, current_url) == failed

\* main.py:131
RecordFailure(failed, current_url) == failed \cup {current_url}

\* main.py:176-189: one anchor of the page; st carries links, visited and
\* the history of offers
OfferHref(href, current_url, current_depth, st) ==
    IF href = <<>> THEN st
    ELSE IF SkipHref(href) THEN [st EXCEPT !.skipped = @ \cup {href}]
    ELSE LET complete_url == urljoin(original, href) IN
         IF ShouldEnqueue(complete_url, st.visited)
         THEN [links |-> Append(st.links,
                                [link |-> complete_url,
                                 depth |-> ChildDepth(current_depth)]),
               visited |-> st.visited \cup {complete_url},
               offered |-> st.offered \cup {href},
               dups |-> st.dups,
               skipped |-> st.skipped]
         ELSE [st EXCEPT !.offered = @ \cup {href},
                         !.dups = IF complete_url \in st.visited
                                  THEN @ \cup {[link |-> complete_url,
                                                 page |-> current_url]}
                                  ELSE @]

RECURSIVE ExtractLinks(_, _, _, _)
\* main.py:175: for link in all_links
ExtractLinks(all_links, current_url, current_depth, st) ==
    IF all_links = <<>> THEN st
    ELSE ExtractLinks(Tail(all_links), current_url, current_depth,
                      OfferHref(Head(all_links).href, current_url, current_depth, st))

----------------------------------------------------------------------------
(* The fetch command, main.py:69-196 *)

NotReported == -1

NoSummary == [visited |-> NotReported, failed |-> NotReported]

Terminal == {"completed", "depth_exceeded"}

NoAsk == [project |-> "", outcome |-> "none", opened |-> FALSE]

\* the project names given to ask
AskProjects == Projects \cup {"blog", ""}

Stopped == {"idle", "config_error", "crashed"} \cup Terminal

\* what a later invocation can know of the one before it
Outcome ==
    [pc |-> pc,
     original |-> original,
     ids |-> runIds,
     processed |-> {log[i].url : i \in 1..Len(log)},
     allCached |-> \A i \in 1..Len(log) : check_cache(url_to_filename(log[i].url))]

\* the outcomes of requests.get + raise_for_status: a RequestException, or
\* the body of a successful response (the site's document, or an empty body)
NetOutcomes(url) ==
    {[ok |-> FALSE, text |-> <<>>],
     [ok |-> TRUE, text |-> Web(url)],
     [ok |-> TRUE, text |-> EmptyBody]}

Faults == {"none", "chunker", "upsert"}

\* main.py:99-100: the URL of the item the loop is at
HeadUrl == IF LoopGuard THEN links[n + 1].link ELSE <<>>

\* main.py:92-93 fixes max_links = 10 and max_depth = 1; the walk is also
\* explored under smaller max_links and larger max_depth
Bounds == {CodeMaxLinks, MaxLinks} \X {CodeMaxDepth, MaxDepth}

Init ==
    /\ \E b \in Bounds : max_links = b[1] /\ max_depth = b[2]
    /\ pc = "idle"
    /\ run = 0
    /\ project = ""
    /\ original = <<>>
    /\ force_recache = FALSE
    /\ links = <<>>
    /\ visited = {}
    /\ links_not_downloaded = {}
    /\ n = 0
    /\ cache = <<>>
    /\ collection = {}
    /\ netFetches = 0
    /\ cacheReads = 0
    /\ log = <<>>
    /\ runIds = {}
    /\ offered = {}
    /\ dupOffers = {}
    /\ skipped = {}
    /\ summary = NoSummary
    /\ prev = [pc |-> "none", original |-> <<>>, ids |-> {}, processed |-> {},
               allCached |-> TRUE]
    /\ dirs = {}
    /\ fetched = {}
    /\ asked = NoAsk

\* main.py:77-83: a missing argument ends the command before any I/O; the
\* variables keep what the last run that passed this validation left
FetchInvalid(p, o) ==
    /\ pc \in Stopped
    /\ p = "" \/ o = <<>>
    /\ pc' = "config_error"
    /\ UNCHANGED <<max_links, max_depth, run, project, original, force_recache,
                   links, visited, links_not_downloaded, n, cache, collection,
                   netFetches, cacheReads, log, runIds, offered, dupOffers,
                   skipped, summary, prev, dirs, fetched, asked>>

\* main.py:77-97: set-up of one run; create_folder (main.py:28-33, 86-87)
\* leaves the project's directory in place
FetchStart(p, o, f) ==
    /\ pc \in Stopped
    /\ run < MaxRuns
    /\ p # "" /\ o # <<>>
    /\ pc' = "running"
    /\ run' = run + 1
    /\ project' = p
    /\ original' = o
    /\ force_recache' = f
    /\ links' = <<[link |-> o, depth |-> 0]>>
    /\ visited' = {o}
    /\ links_not_downloaded' = {}
    /\ n' = 0
    /\ netFetches' = 0
    /\ cacheReads' = 0
    /\ log' = <<>>
    /\ runIds' = {}
    /\ offered' = {}
    /\ dupOffers' = {}
    /\ skipped' = {}
    /\ summary' = NoSummary
    /\ prev' = Outcome
    /\ dirs' = dirs \cup {p}
    /\ fetched' = fetched \cup {p}
    /\ asked' = NoAsk
    /\ UNCHANGED <<max_links, max_depth, cache, collection>>

\* main.py:104-110: the item at the head is too deep; report and exit
DepthExceededStop ==
    /\ pc = "running"
    /\ LoopGuard
    /\ ~DepthOK(links[n + 1].depth)
    /\ pc' = "depth_exceeded"
    /\ summary' = [visited |-> Cardinality(visited),
                   failed |-> IF Cardinality(links_not_downloaded) > 0
                              THEN Cardinality(links_not_downloaded)
                              ELSE NotReported]
    /\ UNCHANGED <<max_links, max_depth, run, project, original, force_recache,
                   links, visited, links_not_downloaded, n, cache, collection,
                   netFetches, cacheReads, log, runIds, offered, dupOffers, skipped, prev,
                   dirs, fetched, asked>>

\* main.py:98-191: one iteration of the loop on links[n]; readOK, net, fault
\* and writeOK are what the file system, the network, the chunker and the
\* vector store do when (and if) they are called
Iteration(readOK, net, fault, writeOK) ==
    /\ pc = "running"
    /\ LoopGuard
    /\ DepthOK(links[n + 1].depth)
    /\ LET current_url == links[n + 1].link
           current_depth == links[n + 1].depth
           page_index == NextIndex(n)
           filename == url_to_filename(current_url)
           consulted == UseCache(filename)
           cached == IF consulted THEN get_cache(filename, readOK) ELSE <<>>
           download == ~Truthy(cached)
           html_content == IF ~download THEN cached
                           ELSE IF net.ok THEN <<net.text>> ELSE cached
           failed == download /\ ~net.ok
           soup == Clean(html_content[1])
           title == TitleOf(soup)
           llm_md == Markdown(soup)
           st == ExtractLinks(AllLinks(soup), current_url, current_depth,
                              [links |-> links, visited |-> visited,
                               offered |-> offered, dups |-> dupOffers,
                               skipped |-> skipped])
           entry == [url |-> current_url, depth |-> current_depth,
                     fetched |-> download, read |-> consulted,
                     readErr |-> consulted /\ ~readOK,
                     hadContent |-> check_cache(filename) /\ cache[filename] # <<>>,
                     outcome |-> "",
                     writeErr |-> FALSE, title |-> "", emptyText |-> FALSE,
                     docs |-> <<>>, records |-> <<>>, upserts |-> 0,
                     extracted |-> FALSE]
       IN
       /\ n' = page_index
       /\ netFetches' = IF download THEN netFetches + 1 ELSE netFetches
       /\ cacheReads' = IF consulted THEN cacheReads + 1 ELSE cacheReads
       /\ links_not_downloaded' =
             IF failed THEN RecordFailure(links_not_downloaded, current_url)
             ELSE links_not_downloaded
       /\ IF ~Truthy(html_content)
          THEN \* main.py:190-191
               /\ pc' = "running"
               /\ log' = Append(log, [entry EXCEPT !.outcome =
                                       IF failed THEN "net_fail" ELSE "no_content"])
               /\ UNCHANGED <<cache, collection, runIds, links, visited,
                              offered, dupOffers, skipped>>
          ELSE \* main.py:139-189
               /\ cache' = write_cache(cache, filename, soup, writeOK)
               /\ \E docs \in create_documents(llm_md) :
                  LET records == BuildRecords(docs, current_url, title, page_index)
                      page == [entry EXCEPT !.writeErr = ~writeOK,
                                            !.title = title,
                                            !.emptyText = (llm_md = <<>>)]
                  IN
                  IF write_cache_raises(writeOK)
                  THEN /\ pc' = "crashed"
                       /\ log' = Append(log, [page EXCEPT !.outcome = "write_raised"])
                       /\ UNCHANGED <<collection, runIds, links, visited,
                                      offered, dupOffers, skipped>>
                  ELSE IF fault = "chunker"
                  THEN /\ pc' = "crashed"
                       /\ log' = Append(log, [page EXCEPT !.outcome = "chunker_raised"])
                       /\ UNCHANGED <<collection, runIds, links, visited,
                                      offered, dupOffers, skipped>>
                  ELSE IF fault = "upsert"
                  THEN /\ pc' = "crashed"
                       /\ log' = Append(log, [page EXCEPT !.outcome = "upsert_raised",
                                                          !.docs = docs,
                                                          !.records = records,
                                                          !.upserts = 1])
                       /\ UNCHANGED <<collection, runIds, links, visited,
                                      offered, dupOffers, skipped>>
                  ELSE /\ pc' = "running"
                       /\ collection' = add_data(collection, records)
                       /\ runIds' = runIds \cup {records[k].id : k \in 1..Len(records)}
                       /\ links' = st.links
                       /\ visited' = st.visited
                       /\ offered' = st.offered
                       /\ dupOffers' = st.dups
                       /\ skipped' = st.skipped
                       /\ log' = Append(log, [page EXCEPT !.outcome = "indexed",
                                                          !.docs = docs,
                                                          !.records = records,
                                                          !.upserts = 1,
                                                          !.extracted = TRUE])
    /\ UNCHANGED <<max_links, max_depth, run, project, original, force_recache,
                   summary, prev, dirs, fetched, asked>>

\* main.py:192-196: the loop condition is false; report and return
LoopExit ==
    /\ pc = "running"
    /\ ~LoopGuard
    /\ pc' = "completed"
    /\ summary' = [visited |-> Cardinality(visited), failed |-> NotReported]
    /\ UNCHANGED <<max_links, max_depth, run, project, original, force_recache,
                   links, visited, links_not_downloaded, n, cache, collection,
                   netFetches, cacheReads, log, runIds, offered, dupOffers, skipped, prev,
                   dirs, fetched, asked>>

\* main.py:199-219: the ask command, run between fetch commands
Ask(p) ==
    /\ pc \in Stopped
    /\ asked' = IF p = ""
                THEN [project |-> p, outcome |-> "config_error", opened |-> FALSE]
                ELSE IF ~project_exists(p)
                THEN [project |-> p, outcome |-> "no_project", opened |-> FALSE]
                ELSE [project |-> p, outcome |-> "queried", opened |-> TRUE]
    /\ UNCHANGED <<max_links, max_depth, pc, run, project, original,
                   force_recache, links, visited, links_not_downloaded, n,
                   cache, collection, netFetches, cacheReads, log, runIds,
                   offered, dupOffers, skipped, summary, prev, dirs, fetched>>

Next ==
    \/ \E p \in Projects \cup {""}, o \in Seeds \cup {<<>>} : FetchInvalid(p, o)
    \/ \E p \in Projects, o \in Seeds, f \in BOOLEAN : FetchStart(p, o, f)
    \/ DepthExceededStop
    \/ \E readOK \in BOOLEAN, fault \in Faults :
          \E net \in NetOutcomes(HeadUrl) : Iteration(readOK, net, fault, TRUE)
    \/ LoopExit

\* the walk under every max_links and max_depth of Bounds, with the cache
\* files writable
Spec == Init /\ [][Next]_vars

\* the program as it is built: max_links and max_depth as main.py:92-93
\* fixes them, both commands (fetch and ask), a third site, and cache files
\* that may fail to be written
InitCode == Init /\ max_links = CodeMaxLinks /\ max_depth = CodeMaxDepth

NextCode ==
    \/ Next
    \/ \E p \in Projects, f \in BOOLEAN : FetchStart(p, <<Example>>, f)
    \/ \E readOK \in BOOLEAN, fault \in Faults :
          \E net \in NetOutcomes(HeadUrl) : Iteration(readOK, net, fault, FALSE)
    \/ \E p \in AskProjects : Ask(p)

SpecCode == InitCode /\ [][NextCode]_vars

\* main.py:98-191: the steps the loop takes by itself once started, every
\* call to the chunker and to the vector store returning
LoopStep ==
    \/ DepthExceededStop
    \/ LoopExit
    \/ \E readOK \in BOOLEAN :
          \E net \in NetOutcomes(HeadUrl) : Iteration(readOK, net, "none", TRUE)

NextLive ==
    \/ \E p \in Projects, o \in Seeds, f \in BOOLEAN : FetchStart(p, o, f)
    \/ DepthExceededStop
    \/ LoopExit
    \/ \E readOK \in BOOLEAN :
          \E net \in NetOutcomes(HeadUrl) : Iteration(readOK, net, "none", TRUE)

\* a started fetch keeps executing (it is sequential code that nothing
\* suspends); when the command is given is up to the user
SpecLive == Init /\ [][NextLive]_vars /\ WF_vars(LoopStep)

----------------------------------------------------------------------------
(* Properties *)

\* the run has the values main.py:92-93 fixes
CodeBounds == max_links = CodeMaxLinks /\ max_depth = CodeMaxDepth

QueueUrls == {links[i].link : i \in 1..Len(links)}

\* C1: the work queue never holds a URL twice, and visited is exactly the
\* set of URLs ever appended to it (the seed included)
C1_QueueHasNoDuplicates ==
    /\ \A i, j \in 1..Len(links) : links[i].link = links[j].link => i = j
    /\ visited = QueueUrls

\* a link first found on one page was found again on another page and on
\* that page twice, and sits in the queue once
C1_Witness ==
    \E d \in dupOffers :
        /\ d.link # original
        /\ d.page # original
        /\ Cardinality({i \in 1..Len(links) : links[i].link = d.link}) = 1

C2_State ==
    /\ \A i \in 1..Len(log) : log[i].depth < max_depth
    /\ pc = "depth_exceeded" =>
          /\ n < Len(links)
          /\ links[n + 1].depth >= max_depth
          /\ Len(log) = n

C2_Step ==
    /\ (pc = "running" /\ LoopGuard /\ links[n + 1].depth >= max_depth) =>
          /\ pc' = "depth_exceeded"
          /\ UNCHANGED <<log, n, links, visited, links_not_downloaded, cache,
                         collection, runIds, netFetches, cacheReads>>
    /\ (pc = "depth_exceeded" /\ run' = run) =>
          UNCHANGED <<log, n, links, visited, links_not_downloaded, cache,
                      collection, runIds, netFetches, cacheReads>>

\* C2: no item of depth >= max_depth is ever processed; when the item at the
\* head of the queue has depth >= max_depth the run stops in DepthExceeded
\* without touching it, and nothing is processed in that run afterwards
C2_NoItemAtMaxDepthProcessed == []C2_State /\ [][C2_Step]_vars

\* the run stopped on depth after processing an item, leaving at least two
\* items unprocessed
C2_Witness ==
    /\ pc = "depth_exceeded"
    /\ n >= 1
    /\ Len(links) >= n + 2

\* C3: at most max_links items are processed in a run; n never exceeds
\* max_links nor the length of the queue
C3_AtMostMaxLinksProcessed ==
    /\ n <= max_links
    /\ n <= Len(links)
    /\ Len(log) = n

\* the run completed because max_links items were processed, with more
\* links discovered than processed
C3_Witness ==
    /\ pc = "completed"
    /\ n = max_links
    /\ Len(links) > n

\* C4: a re-run without force_recache of a run that ended normally on the
\* same seed and left a cache file for every page it processed, with every
\* cache read succeeding, makes no network fetch and produces the same ids
\* (stated for the values of max_links and max_depth the code fixes)
C4_RerunMakesNoFetchAndSameIds ==
    ( /\ CodeBounds
      /\ pc \in Terminal
      /\ ~force_recache
      /\ prev.pc \in Terminal
      /\ prev.original = original
      /\ prev.allCached
      /\ \A i \in 1..Len(log) : ~log[i].readErr )
    => (netFetches = 0 /\ runIds = prev.ids)

\* C5: a run with force_recache never reads the cache and makes a network
\* fetch for every processed URL
C5_ForceRecacheAlwaysFetches ==
    force_recache =>
        /\ cacheReads = 0
        /\ netFetches = n
        /\ \A i \in 1..Len(log) : log[i].fetched /\ ~log[i].read

\* a forced run fetched a URL whose cache file existed with content
C5_Witness ==
    /\ force_recache
    /\ \E i \in 1..Len(log) : log[i].hadContent /\ log[i].fetched

NetFailStep ==
    /\ Len(log') = Len(log) + 1
    /\ log'[Len(log')].outcome = "net_fail"

C6_State ==
    \A i \in 1..Len(log) :
        log[i].outcome = "net_fail" => log[i].url \in links_not_downloaded

C6_Step ==
    NetFailStep =>
        /\ pc' = "running"
        /\ n' = n + 1
        /\ links_not_downloaded' = links_not_downloaded \cup {links[n + 1].link}
        /\ UNCHANGED <<cache, collection, runIds, links, visited>>

\* C6: a network failure on one item adds its URL to the failed set, caches,
\* indexes and enqueues nothing, and leaves the loop running
C6_NetworkFailureNotFatal == []C6_State /\ [][C6_Step]_vars

\* an item was processed after the download of an earlier one failed
C6_Witness ==
    \E i \in 1..Len(log) :
        /\ i < Len(log)
        /\ log[i].outcome = "net_fail"
        /\ log[i + 1].outcome = "indexed"

\* C7: when the chunker raises on a page, the page contributes no record and
\* the run goes on with the next item instead of ending there
C7_ChunkerFailureSkipsPage ==
    \A i \in 1..Len(log) :
        (CodeBounds /\ log[i].outcome = "chunker_raised") =>
            /\ pc # "crashed"
            /\ runIds = {}

\* C8: in both terminal states the summary reports the number of visited
\* URLs and, when some URL could not be downloaded, how many
C8_SummaryReportsVisitedAndFailed ==
    (CodeBounds /\ pc \in Terminal) =>
        /\ summary.visited = Cardinality(visited)
        /\ links_not_downloaded # {} =>
              summary.failed = Cardinality(links_not_downloaded)

\* C9: every processed item that ended without content (neither indexed nor
\* link-extracted) is in the failed set
C9_NoContentIsRecordedAsFailed ==
    \A i \in 1..Len(log) :
        (CodeBounds /\ log[i].outcome \in {"net_fail", "no_content"}) =>
            log[i].url \in links_not_downloaded

HasMarker(href) == \E i \in 1..Len(href) : href[i] \in {"#", "/cdn-cgi"}

\* C10: no href containing "#" or "/cdn-cgi" is ever resolved and offered to
\* the frontier; every queue entry but the seed is the resolution of an
\* href without these markers
C10_MarkedHrefsNeverOffered ==
    /\ \A h \in offered : ~HasMarker(h)
    /\ \A i \in 1..Len(links) :
          links[i].link # original =>
              \E h \in offered : ~HasMarker(h) /\ links[i].link = urljoin(original, h)

\* a page carrying "/page#section" and "/cdn-cgi/trace" was link-extracted
C10_Witness ==
    /\ <<"/page", "#", "section">> \in skipped
    /\ <<"/cdn-cgi", "/trace">> \in skipped
    /\ <<Site, "/c">> \in visited

\* C11: every URL of the queue and of visited contains the seed as a
\* substring and, the seed apart, is an href resolved against the seed; from
\* seed "https://example.com", whose page links to "https://example.com/a"
\* and "https://other.com/b", exactly the seed and "/a" are enqueued and the
\* reported visited count is 2
C11_QueuedUrlsContainSeed ==
    /\ \A u \in visited \cup QueueUrls : In(original, u)
    /\ \A i \in 1..Len(links) :
          links[i].link # original =>
              \E h \in offered : links[i].link = urljoin(original, h)
    /\ ( /\ original = <<Example>>
         /\ Len(log) >= 1
         /\ log[1].outcome = "indexed" ) =>
            /\ <<Other, "/b">> \in offered
            /\ visited = {<<Example>>, <<Example, "/a">>}
            /\ QueueUrls = visited
            /\ pc \in Terminal => summary.visited = 2

\* the two-link page of the seed "https://example.com" was processed and
\* the run ended
C11_Witness ==
    /\ original = <<Example>>
    /\ pc \in Terminal
    /\ log[1].outcome = "indexed"
    /\ <<Other, "/b">> \in offered
    /\ summary.visited = 2

\* C12: ask on a project for which no fetch ever passed validation ends
\* with "no such project" without opening a collection; once a fetch of the
\* project passed validation, ask goes on to the query
C12_AskNeedsFetchedProject ==
    asked.outcome \in {"no_project", "queried"} =>
        /\ asked.project \notin fetched =>
              asked.outcome = "no_project" /\ ~asked.opened
        /\ asked.project \in fetched => asked.outcome = "queried"

\* ask went on to the query after a fetch that cached nothing
C12_Witness ==
    /\ asked.outcome = "queried"
    /\ asked.project \in fetched
    /\ DOMAIN cache = {}
    /\ collection = {}

\* C13: each span at 0-based position i of a page gives exactly one record,
\* in span order, with id url_crawler_{title}_{page_index}_{i} and metadata
\* holding source_url, title and chunk_index = i, all sent in one upsert
C13_OneRecordPerSpanWithChunkIndex ==
    \A p \in 1..Len(log) :
        (CodeBounds /\ log[p].outcome \in {"indexed", "upsert_raised"}) =>
            /\ log[p].upserts = 1
            /\ Len(log[p].records) = Len(log[p].docs)
            /\ \A k \in 1..Len(log[p].records) :
                  LET r == log[p].records[k] IN
                  /\ r.id = <<"url_crawler", log[p].title, p, k - 1>>
                  /\ r.document = log[p].docs[k]
                  /\ r.metadata.source_url = log[p].url
                  /\ r.metadata.title = log[p].title
                  /\ "chunk_index" \in DOMAIN r.metadata
                  /\ r.metadata.chunk_index = k - 1

\* C14: when the upsert of a page raises, the page's links are still
\* extracted and offered, and the run does not end there
C14_LinksExtractedDespiteUpsertFailure ==
    \A p \in 1..Len(log) :
        (CodeBounds /\ log[p].outcome = "upsert_raised") =>
            /\ log[p].extracted
            /\ pc # "crashed"

\* C15: a cache read that fails is followed by a network fetch of that URL
\* like an absent entry; a cache write that fails ends nothing: the page is
\* still indexed and link-extracted (the chunker and the store permitting)
\* and the loop goes on
C15_CacheFailuresNotFatal ==
    \A p \in 1..Len(log) :
        /\ log[p].outcome # "write_raised"
        /\ log[p].readErr => log[p].fetched
        /\ (log[p].writeErr /\ log[p].outcome \notin {"chunker_raised", "upsert_raised"}) =>
              /\ log[p].outcome = "indexed"
              /\ log[p].upserts = 1
              /\ log[p].extracted
              /\ p = Len(log) => pc # "crashed"

\* the read of a page's cache file failed, the page was downloaded, the write
\* of its cache file failed, and the run went on to its end
C15_Witness ==
    /\ pc \in Terminal
    /\ \E p \in 1..Len(log) :
          /\ log[p].readErr
          /\ log[p].fetched
          /\ log[p].writeErr
          /\ log[p].outcome = "indexed"

\* C16: a page whose text is empty after stripping gives no record: what is
\* upserted for it is empty
C16_EmptyTextYieldsNoRecord ==
    \A p \in 1..Len(log) :
        (CodeBounds /\ log[p].emptyText /\ log[p].outcome = "indexed") =>
            log[p].records = <<>>

C17_Step ==
    pc = "running" =>
        \/ pc' = "running" /\ n' = n + 1
        \/ pc' \in Terminal /\ n' = n

\* C17: every external call returning, a started run reaches Completed or
\* DepthExceeded; each step of the loop increments n or ends the run, and n
\* never exceeds max_links
C17_LoopTerminates ==
    /\ (pc = "running") ~> (pc \in Terminal)
    /\ [](n <= max_links /\ Len(log) = n)
    /\ [][C17_Step]_vars

\* a run ended after max_links iterations during which the queue grew
C17_Witness ==
    /\ pc \in Terminal
    /\ Len(log) = max_links
    /\ Len(links) > Len(log) + 1

C18_State ==
    /\ \A i, j \in 1..Len(links) : i < j => links[i].depth <= links[j].depth
    /\ pc = "depth_exceeded" =>
          \A i \in (n + 1)..Len(links) : links[i].depth >= max_depth

C18_Step ==
    (run' = run /\ Len(links') > Len(links)) =>
        \A i \in (Len(links) + 1)..Len(links') :
            links'[i].depth = links[n + 1].depth + 1

\* C18: the depths in links are non-decreasing in queue order, every
\* discovered item has the depth of the item it was found on plus one, and
\* at DepthExceeded every unprocessed item has depth >= max_depth
C18_DepthsNonDecreasing == []C18_State /\ [][C18_Step]_vars

\* the run stopped on depth with items of depth 0, 1 and 2 in the queue
C18_Witness ==
    /\ pc = "depth_exceeded"
    /\ \E i \in 1..Len(links) : links[i].depth = 1
    /\ \E i \in 1..Len(links) : links[i].depth = 2

C19_State ==
    \A p, q \in 1..Len(log) :
        \A k \in 1..Len(log[p].records), l \in 1..Len(log[q].records) :
            ( /\ log[p].outcome = "indexed"
              /\ log[q].outcome = "indexed"
              /\ log[p].records[k].id = log[q].records[l].id ) => (p = q /\ k = l)

C19_Step ==
    ( /\ run' = run
      /\ Len(log') = Len(log) + 1
      /\ log'[Len(log')].outcome = "indexed" ) =>
        \A k \in 1..Len(log'[Len(log')].records) :
            log'[Len(log')].records[k].id \notin runIds

\* C19: the records emitted in one run have pairwise distinct ids, also for
\* pages of equal title, and no upsert of a run carries an id that an earlier
\* upsert of the same run wrote
C19_ChunkIdsDistinctInRun == []C19_State /\ [][C19_Step]_vars

\* two pages of the same title were indexed in one run
C19_Witness ==
    \E p, q \in 1..Len(log) :
        /\ p < q
        /\ log[p].outcome = "indexed"
        /\ log[q].outcome = "indexed"
        /\ log[p].title = log[q].title
        /\ log[p].records # <<>>
        /\ log[q].records # <<>>

\* C20: with max_depth = 1 and max_links = 10 only the seed is processed;
\* every discovered link has depth 1; the run ends DepthExceeded when the
\* seed page yielded an accepted link and Completed only when it yielded
\* none; the reported count is the number of enqueued URLs
C20_OnlySeedProcessed ==
    /\ n <= 1
    /\ Len(log) <= 1
    /\ \A p \in 1..Len(log) : log[p].url = original /\ log[p].depth = 0
    /\ \A i \in 2..Len(links) : links[i].depth = 1
    /\ pc = "depth_exceeded" => (n = 1 /\ Len(links) >= 2)
    /\ pc = "completed" => (n = 1 /\ Len(links) = 1)
    /\ pc \in Terminal => summary.visited = Len(links)

\* the seed page yielded two links: three pages reported, one processed
C20_Witness ==
    /\ pc = "depth_exceeded"
    /\ summary.visited = 3
    /\ Len(log) = 1

====
